---- MODULE Spec2Model ----
(***************************************************************************)
(* A model of the Minimal Tennis Discord bot (src/bot.py, the variant with *)
(* the health-check web server and the heartbeat; src/MinimalTennisBot/    *)
(* bot.py is the same script without the two background threads).          *)
(*                                                                         *)
(* A text is a sequence of characters, each character a one-character      *)
(* string; the bullet U+2022 is written "(bullet)".  The file update.txt   *)
(* is a record: whether it exists, and its characters.  The host is POSIX: *)
(* writing in text mode leaves "\n" as it is.                              *)
(***************************************************************************)
EXTENDS Integers, Sequences, FiniteSets, TLC

VARIABLES
    token,      \* DISCORD_TOKEN as os.getenv returns it after load_dotenv()
    mainpc,     \* where the main thread is in the module's top-level code
    web,        \* the Flask thread (run_webserver)
    hbpc,       \* where the heartbeat thread is in run_heartbeat's loop
    hbLog,      \* "failed" when run_heartbeat logged its last ping's exception
    conn,       \* the Discord client's connection state
    httpResp,   \* the last answer the web server gave
    file,       \* update.txt
    running,    \* the handler the event loop is executing (0: none)
    task,       \* the command handlers in flight, by slot
    lastDone,   \* the handler that finished last, as its caller saw it
    committed,  \* history: update.txt as the last completed write left it
    wrote       \* history: whether an authorized set-news has written

vars == <<token, mainpc, web, hbpc, hbLog, conn, httpResp, file, running,
          task, lastDone, committed, wrote>>

procVars == <<token, mainpc, web, hbpc, hbLog, conn, httpResp>>
botVars == <<file, running, task, lastDone, committed, wrote>>

(***************************************************************************)
(* Bounds.                                                                 *)
(***************************************************************************)
MaxHandlers == 1    \* command handlers in flight at once (Spec, LiveSpec)
MaxConcurrent == 2  \* command handlers in flight at once (ConcSpec)
MaxFrags == 3       \* fragments a stored text is built from (FmtSpec)

(***************************************************************************)
(* Texts.                                                                  *)
(***************************************************************************)
TagB == <<"[", "b", "]">>
TagBEnd == <<"[", "/", "b", "]">>
TagI == <<"[", "i", "]">>
TagIEnd == <<"[", "/", "i", "]">>
TagBr == <<"[", "b", "r", "]">>
TagLi == <<"[", "l", "i", "]">>
TagUl == <<"[", "u", "l", "]">>

Bold == <<"*", "*">>
Italic == <<"*">>
Newline == <<"\n">>
Bullet == <<"(bullet)", " ">>

\* "No updates yet."
Placeholder ==
    <<"N", "o", " ", "u", "p", "d", "a", "t", "e", "s", " ", "y", "e", "t", ".">>

\* The characters str.strip() removes that the model's texts can hold.
Whitespace == {" ", "\n", "\r"}

RECURSIVE LStrip(_)
LStrip(s) ==
    IF s # <<>> /\ Head(s) \in Whitespace THEN LStrip(Tail(s)) ELSE s

RECURSIVE RStrip(_)
RStrip(s) ==
    IF s # <<>> /\ s[Len(s)] \in Whitespace
    THEN RStrip(SubSeq(s, 1, Len(s) - 1))
    ELSE s

\* str.strip()
Strip(s) == RStrip(LStrip(s))

StartsWith(s, p) == Len(s) >= Len(p) /\ SubSeq(s, 1, Len(p)) = p

Drop(s, n) == SubSeq(s, n + 1, Len(s))

\* str.replace(old, new): the occurrences of old, found left to right
\* without overlap, each replaced by new.
RECURSIVE Replace(_, _, _)
Replace(s, old, new) ==
    IF s = <<>> THEN <<>>
    ELSE IF StartsWith(s, old) THEN new \o Replace(Drop(s, Len(old)), old, new)
    ELSE <<Head(s)>> \o Replace(Tail(s), old, new)

\* What f.read() returns for a file opened with open(..., "r"): universal
\* newlines, "\r\n" and "\r" both read as "\n".
UniversalNewlines(s) == Replace(Replace(s, <<"\r", "\n">>, Newline), <<"\r">>, Newline)

\* A slip in the chain: "[/b]" is looked for as "/b]".
FormatTextSlip(text) ==
    Replace(Replace(Replace(Replace(Replace(Replace(text,
        TagB, Bold), Tail(TagBEnd), Bold), TagI, Italic), TagIEnd, Italic),
        TagBr, Newline), TagLi, Bullet)

\* The chain of replace calls of load_news.
FormatText(text) ==
    Replace(Replace(Replace(Replace(Replace(Replace(text,
        TagB, Bold), TagBEnd, Bold), TagI, Italic), TagIEnd, Italic),
        TagBr, Newline), TagLi, Bullet)

NoFile == [exists |-> FALSE, content |-> <<>>]
FileWith(s) == [exists |-> TRUE, content |-> s]

\* load_news() on update.txt as f: the text it returns; ok is FALSE when it
\* raises instead (FileNotFoundError is caught inside, so never here).
ReadNews(f) ==
    LET read == Strip(UniversalNewlines(f.content))
        text == IF read = <<>> THEN Placeholder ELSE read
    IN  [ok |-> TRUE, text |-> FormatText(text)]

\* load_news without its except clause.
load_news_uncaught(f) ==
    IF ~f.exists THEN [ok |-> FALSE, text |-> <<>>] ELSE ReadNews(f)

load_news(f) ==
    IF ~f.exists THEN [ok |-> TRUE, text |-> Placeholder] ELSE ReadNews(f)

\* save_news(text): open(..., "w") creates or truncates the file, then
\* f.write(text) writes the text.
save_open == FileWith(<<>>)

\* A write that translates the markers instead of keeping them.
save_write_formatted(text) == FileWith(FormatText(text))

save_write(text) == FileWith(text)

(***************************************************************************)
(* Callers, replies, handler records.                                      *)
(***************************************************************************)
\* User ids; 1 stands for the id listed in ADMIN_IDS, 2 for any other.
UserIds == {1, 2}
ADMIN_IDS == {1}

\* interaction.user: its id, and what it is in the place the command came
\* from: a discord.User in a direct message (no guild_permissions), else a
\* discord.Member, with or without the administrator permission.
Users == [id : UserIds, perms : {"dm", "member", "administrator"}]
NoUser == [id |-> 0, perms |-> "none"]

HasGuildPermissions(u) == u.perms # "dm"

\* A check that lets every caller through.
AuthorizedAnyone(u) == TRUE

\* The condition without its "not": the refusal goes to those allowed.
AuthorizedMissingNot(u) == ~(u.perms = "administrator" \/ u.id \in ADMIN_IDS)

\* The condition of set_news.
Authorized(u) == u.perms = "administrator" \/ u.id \in ADMIN_IDS

NoReply == [kind |-> "none", text |-> <<>>]
NewsReply(t) == [kind |-> "news", text |-> t]
DeniedReply == [kind |-> "denied", text |-> <<>>]
SuccessReply == [kind |-> "success", text |-> <<>>]
ErrorReply == [kind |-> "error", text |-> <<>>]

\* What a call to the platform or the file read can raise.
PlatformFailures == {"NotFound", "HTTPException"}
ReadFailures == {"OSError"}

\* An except chain whose two clauses both only log.
ExceptClauseLogOnly(e) == "log_only"

\* The except clauses of minimal_tennis_news: which one catches e.
ExceptClause(e) == IF e = "NotFound" THEN "log_only" ELSE "notify"

Idle ==
    [cmd |-> "none", pc |-> "idle", user |-> NoUser, text |-> <<>>,
     responded |-> FALSE, news |-> <<>>, src |-> NoFile, fault |-> "none",
     via |-> "none", tries |-> 0, logs |-> <<>>]

NoneDone ==
    [cmd |-> "none", user |-> NoUser, reply |-> NoReply, fault |-> "none",
     responded |-> FALSE, via |-> "none", tries |-> 0, logs |-> <<>>,
     raised |-> FALSE]

Slots == DOMAIN task

\* An event loop that would switch handlers anywhere, as threads do.
CanRunPreemptive(i) == TRUE

\* One event loop: a handler runs from one await to the next, and the loop
\* picks another only when the running one awaits or returns.
CanRun(i) == running = 0 \/ running = i

Alive == mainpc = "running"

DoneOf(t, reply, logs, raised) ==
    [cmd |-> t.cmd, user |-> t.user, reply |-> reply, fault |-> t.fault,
     responded |-> t.responded, via |-> t.via, tries |-> t.tries,
     logs |-> logs, raised |-> raised]

\* The handler in slot i returns (or raises out): the slot is free again.
Finish(i, rec) ==
    /\ task' = [task EXCEPT ![i] = Idle]
    /\ lastDone' = rec
    /\ running' = 0

(***************************************************************************)
(* /minimal-tennis-news                                                    *)
(***************************************************************************)
\* The except clauses of minimal_tennis_news, entered with exception e by
\* the handler whose record is t.
OnFailure(i, t, e) ==
    IF ExceptClause(e) = "log_only"
    THEN Finish(i, DoneOf([t EXCEPT !.fault = e], NoReply, <<"not_found">>, FALSE))
    ELSE /\ task' = [task EXCEPT ![i] =
                [t EXCEPT !.pc = "fallback",
                          !.fault = e,
                          !.logs = <<"unhandled">>,
                          !.tries = t.tries + 1,
                          !.via = IF t.responded THEN "followup" ELSE "response"]]
         /\ running' = 0
         /\ UNCHANGED lastDone

\* The command arrives; the handler runs up to its await of defer.
InvokeQuery(i) ==
    /\ Alive /\ conn = "ready"
    /\ task[i].pc = "idle" /\ CanRun(i)
    /\ task' = [task EXCEPT ![i] = [Idle EXCEPT !.cmd = "query", !.pc = "defer"]]
    /\ running' = 0
    /\ UNCHANGED <<procVars, file, lastDone, committed, wrote>>

\* defer raises.
DeferRaises(i, e) ==
    /\ Alive
    /\ task[i].pc = "defer" /\ CanRun(i)
    /\ OnFailure(i, task[i], e)
    /\ UNCHANGED <<procVars, file, committed, wrote>>

\* defer returns; load_news reads the file; the handler awaits followup.send.
DeferReturns(i) ==
    /\ Alive
    /\ task[i].pc = "defer" /\ CanRun(i)
    /\ LET r == load_news(file)
           t == [task[i] EXCEPT !.responded = TRUE]
       IN  IF r.ok
           THEN /\ task' = [task EXCEPT ![i] =
                        [t EXCEPT !.pc = "followup", !.news = r.text,
                                  !.src = committed]]
                /\ running' = 0
                /\ UNCHANGED lastDone
           ELSE OnFailure(i, t, "FileNotFoundError")
    /\ UNCHANGED <<procVars, file, committed, wrote>>

\* defer returns; the file is there and reading it raises (it cannot be
\* opened or decoded).
ReadRaises(i, e) ==
    /\ Alive
    /\ task[i].pc = "defer" /\ CanRun(i)
    /\ file.exists
    /\ OnFailure(i, [task[i] EXCEPT !.responded = TRUE], e)
    /\ UNCHANGED <<procVars, file, committed, wrote>>

\* followup.send(news) returns: the caller has the news.
FollowupReturns(i) ==
    /\ Alive
    /\ task[i].pc = "followup" /\ CanRun(i)
    /\ Finish(i, DoneOf(task[i], NewsReply(task[i].news), <<>>, FALSE))
    /\ UNCHANGED <<procVars, file, committed, wrote>>

\* followup.send(news) raises.
FollowupRaises(i, e) ==
    /\ Alive
    /\ task[i].pc = "followup" /\ CanRun(i)
    /\ OnFailure(i, task[i], e)
    /\ UNCHANGED <<procVars, file, committed, wrote>>

\* The error notification is delivered.
FallbackReturns(i) ==
    /\ Alive
    /\ task[i].pc = "fallback" /\ CanRun(i)
    /\ Finish(i, DoneOf(task[i], ErrorReply, task[i].logs, FALSE))
    /\ UNCHANGED <<procVars, file, committed, wrote>>

\* The error notification raises too: logged, nothing more.
FallbackRaises(i) ==
    /\ Alive
    /\ task[i].pc = "fallback" /\ CanRun(i)
    /\ Finish(i, DoneOf(task[i], NoReply,
                        Append(task[i].logs, "also_failed"), FALSE))
    /\ UNCHANGED <<procVars, file, committed, wrote>>

(***************************************************************************)
(* /set-news                                                               *)
(***************************************************************************)
\* The command arrives; the handler checks the caller and either awaits
\* the refusal's send_message or enters save_news, whose open truncates.
InvokeSet(i, u, text) ==
    /\ Alive /\ conn = "ready"
    /\ task[i].pc = "idle" /\ CanRun(i)
    /\ LET t == [Idle EXCEPT !.cmd = "set", !.user = u] IN
       IF ~HasGuildPermissions(u)
       THEN /\ Finish(i, DoneOf([t EXCEPT !.fault = "AttributeError"],
                                NoReply, <<>>, TRUE))
            /\ UNCHANGED file
       ELSE IF ~Authorized(u)
       THEN /\ task' = [task EXCEPT ![i] = [t EXCEPT !.pc = "send_denied"]]
            /\ running' = 0
            /\ UNCHANGED <<file, lastDone>>
       ELSE /\ task' = [task EXCEPT ![i] =
                    [t EXCEPT !.pc = "write", !.text = text]]
            /\ running' = i
            /\ file' = save_open
            /\ UNCHANGED lastDone
    /\ UNCHANGED <<procVars, committed, wrote>>

\* f.write(text) and the close; the handler awaits the confirmation's
\* send_message.
SaveWrite(i) ==
    /\ Alive
    /\ task[i].pc = "write" /\ CanRun(i)
    /\ file' = save_write(task[i].text)
    /\ committed' = FileWith(task[i].text)
    /\ wrote' = TRUE
    /\ task' = [task EXCEPT ![i] = [@ EXCEPT !.pc = "send_ok", !.text = <<>>]]
    /\ running' = 0
    /\ UNCHANGED <<procVars, lastDone>>

\* send_message returns: the caller has the refusal or the confirmation.
SendReturns(i) ==
    /\ Alive
    /\ task[i].pc \in {"send_denied", "send_ok"} /\ CanRun(i)
    /\ Finish(i, DoneOf(task[i],
                        IF task[i].pc = "send_denied" THEN DeniedReply
                                                      ELSE SuccessReply,
                        <<>>, FALSE))
    /\ UNCHANGED <<procVars, file, committed, wrote>>

\* send_message raises: set_news catches nothing.
SendRaises(i) ==
    /\ Alive
    /\ task[i].pc \in {"send_denied", "send_ok"} /\ CanRun(i)
    /\ Finish(i, DoneOf([task[i] EXCEPT !.fault = "HTTPException"],
                        NoReply, <<>>, TRUE))
    /\ UNCHANGED <<procVars, file, committed, wrote>>

(***************************************************************************)
(* The module's top-level code, the two threads, the client.               *)
(***************************************************************************)
\* A check for None alone, which lets an empty token through.
TokenMissingNoneOnly(tok) == tok = "None"

\* not TOKEN: os.getenv gave None, or an empty string.
TokenMissing(tok) == tok = "None" \/ tok = ""

\* TOKEN = os.getenv(...); if not TOKEN: raise ValueError(...)
CheckToken ==
    /\ mainpc = "check_token"
    /\ mainpc' = IF TokenMissing(token) THEN "crashed" ELSE "start_web"
    /\ UNCHANGED <<token, web, hbpc, hbLog, conn, httpResp, botVars>>

\* web_thread.start(); app.run binds the port and serves.
StartWeb ==
    /\ mainpc = "start_web"
    /\ web' = "serving"
    /\ mainpc' = "start_heartbeat"
    /\ UNCHANGED <<token, hbpc, hbLog, conn, httpResp, botVars>>

\* web_thread.start(); app.run raises (the port is taken) and the thread
\* ends, which the main thread does not see.
StartWebFails ==
    /\ mainpc = "start_web"
    /\ web' = "failed"
    /\ mainpc' = "start_heartbeat"
    /\ UNCHANGED <<token, hbpc, hbLog, conn, httpResp, botVars>>

\* heartbeat_thread.start()
StartHeartbeat ==
    /\ mainpc = "start_heartbeat"
    /\ hbpc' = "ping"
    /\ mainpc' = "bot_run"
    /\ UNCHANGED <<token, web, hbLog, conn, httpResp, botVars>>

\* bot.run(TOKEN)
BotRun ==
    /\ mainpc = "bot_run"
    /\ conn' = "connecting"
    /\ mainpc' = "running"
    /\ UNCHANGED <<token, web, hbpc, hbLog, httpResp, botVars>>

\* The login is refused: bot.run raises, the process ends and its daemon
\* threads with it.
LoginFails ==
    /\ Alive /\ conn = "connecting"
    /\ mainpc' = "exited"
    /\ conn' = "closed"
    /\ web' = "off"
    /\ hbpc' = "off"
    /\ UNCHANGED <<token, hbLog, httpResp, botVars>>

\* on_ready
OnReady ==
    /\ Alive /\ conn = "connecting"
    /\ conn' = "ready"
    /\ UNCHANGED <<token, mainpc, web, hbpc, hbLog, httpResp, botVars>>

\* The gateway connection drops; the client reconnects by itself.
Disconnect ==
    /\ Alive /\ conn = "ready"
    /\ conn' = "disconnected"
    /\ UNCHANGED <<token, mainpc, web, hbpc, hbLog, httpResp, botVars>>

Reconnect ==
    /\ Alive /\ conn = "disconnected"
    /\ conn' = "ready"
    /\ UNCHANGED <<token, mainpc, web, hbpc, hbLog, httpResp, botVars>>

Routes == {"/", "/healthz"}
NoResponse == [route |-> "none", status |-> 0, body |-> "none"]

\* A health route that reports the bot's connection.
healthz_of_connection ==
    IF conn = "ready"
    THEN [route |-> "/healthz", status |-> 200, body |-> "{status: ok}"]
    ELSE [route |-> "/healthz", status |-> 503, body |-> "{status: down}"]

\* index(): "OK", 200
index == [route |-> "/", status |-> 200, body |-> "OK"]

\* healthz(): jsonify(status="ok"), 200
healthz == [route |-> "/healthz", status |-> 200, body |-> "{status: ok}"]

Respond(route) == IF route = "/" THEN index ELSE healthz

\* A request from outside to one of the two routes.
HealthRequest(route) ==
    /\ web = "serving"
    /\ httpResp' = Respond(route)
    /\ UNCHANGED <<token, mainpc, web, hbpc, hbLog, conn, botVars>>

\* A loop that ends when its ping fails.
AfterPingFailureStops == "off"

\* run_heartbeat: where the loop goes once the except clause has logged.
AfterPingFailure == "sleep"

\* requests.get(url, timeout=5) returns.
HeartbeatPingReturns ==
    /\ hbpc = "ping"
    /\ web = "serving"
    /\ httpResp' = Respond("/healthz")
    /\ hbLog' = "none"
    /\ hbpc' = "sleep"
    /\ UNCHANGED <<token, mainpc, web, conn, botVars>>

\* requests.get raises (refused, timed out): logged, and the loop goes on.
HeartbeatPingRaises ==
    /\ hbpc = "ping"
    /\ hbLog' = "failed"
    /\ hbpc' = AfterPingFailure
    /\ UNCHANGED <<token, mainpc, web, conn, httpResp, botVars>>

\* time.sleep(interval_seconds) returns.
HeartbeatWakes ==
    /\ hbpc = "sleep"
    /\ hbpc' = "ping"
    /\ UNCHANGED <<token, mainpc, web, hbLog, conn, httpResp, botVars>>

(***************************************************************************)
(* Inputs.                                                                 *)
(***************************************************************************)
Tokens == {"None", "", "token"}

SampleA == <<" ">> \o TagB \o <<"a">> \o TagBEnd \o <<" ">>
SampleB == TagUl \o TagLi \o <<"a">> \o TagBr \o <<"b">>
SampleTexts == {SampleA, SampleB}
InitialFiles == {NoFile, FileWith(SampleB)}

Frags ==
    {TagB, TagBEnd, TagI, TagIEnd, TagBr, TagLi, TagUl,
     <<" ">>, <<"\n">>, <<"\r">>, <<"a">>, <<"[">>}

RECURSIVE FragTexts(_)
FragTexts(n) ==
    IF n = 0 THEN {<<>>}
    ELSE LET shorter == FragTexts(n - 1)
         IN  shorter \cup {s \o f : s \in shorter, f \in Frags}

(***************************************************************************)
(* The program.                                                            *)
(***************************************************************************)
Init ==
    /\ token \in Tokens
    /\ mainpc = "check_token"
    /\ web = "off"
    /\ hbpc = "off"
    /\ hbLog = "none"
    /\ conn = "off"
    /\ httpResp = NoResponse
    /\ file \in InitialFiles
    /\ running = 0
    /\ task = [i \in 1..MaxHandlers |-> Idle]
    /\ lastDone = NoneDone
    /\ committed = file
    /\ wrote = FALSE

Handlers ==
    \/ \E i \in Slots : InvokeQuery(i)
    \/ \E i \in Slots : DeferReturns(i)
    \/ \E i \in Slots, e \in PlatformFailures : DeferRaises(i, e)
    \/ \E i \in Slots, e \in ReadFailures : ReadRaises(i, e)
    \/ \E i \in Slots : FollowupReturns(i)
    \/ \E i \in Slots, e \in PlatformFailures : FollowupRaises(i, e)
    \/ \E i \in Slots : FallbackReturns(i)
    \/ \E i \in Slots : FallbackRaises(i)
    \/ \E i \in Slots, u \in Users, text \in SampleTexts : InvokeSet(i, u, text)
    \/ \E i \in Slots : SaveWrite(i)
    \/ \E i \in Slots : SendReturns(i)
    \/ \E i \in Slots : SendRaises(i)

Heartbeat == HeartbeatPingReturns \/ HeartbeatPingRaises \/ HeartbeatWakes

Next ==
    \/ CheckToken
    \/ StartWeb
    \/ StartWebFails
    \/ StartHeartbeat
    \/ BotRun
    \/ LoginFails
    \/ OnReady
    \/ Disconnect
    \/ Reconnect
    \/ \E route \in Routes : HealthRequest(route)
    \/ Heartbeat
    \/ Handlers

Spec == Init /\ [][Next]_vars

\* Spec with the scheduling of the heartbeat's thread: the ping returns or
\* raises within its timeout, the sleep ends, the thread gets to run.
LiveSpec == Spec /\ WF_vars(Heartbeat)

\* The state once the module's top-level code has run and on_ready has been
\* reached, with n handler slots and update.txt as f.
Started(n, f) ==
    /\ token = "token"
    /\ mainpc = "running"
    /\ web = "serving"
    /\ hbpc = "sleep"
    /\ hbLog = "none"
    /\ conn = "ready"
    /\ httpResp = NoResponse
    /\ file = f
    /\ running = 0
    /\ task = [i \in 1..n |-> Idle]
    /\ lastDone = NoneDone
    /\ committed = f
    /\ wrote = FALSE

\* The command handlers alone, several in flight on the one event loop.
InitConc == \E f \in InitialFiles : Started(MaxConcurrent, f)

ConcSpec == InitConc /\ [][Handlers]_vars

\* The query path alone, over every text of up to MaxFrags fragments.
InitFmt == \E s \in FragTexts(MaxFrags) : Started(1, FileWith(s))

NextFmt ==
    \/ \E i \in Slots : InvokeQuery(i)
    \/ \E i \in Slots : DeferReturns(i)
    \/ \E i \in Slots : FollowupReturns(i)

FmtSpec == InitFmt /\ [][NextFmt]_vars

(***************************************************************************)
(* Vocabulary of the properties.                                           *)
(***************************************************************************)
\* A caller with neither the administrator permission nor a listed id.
Unprivileged(u) == u.perms # "administrator" /\ u.id \notin ADMIN_IDS

\* The step is one of a set-news handler run for an unprivileged caller.
UnprivilegedSetStep ==
    \/ \E i \in Slots :
        /\ task'[i] # task[i]
        /\ \/ task[i].cmd = "set" /\ Unprivileged(task[i].user)
           \/ task'[i].cmd = "set" /\ Unprivileged(task'[i].user)
    \/ lastDone' # lastDone /\ lastDone'.cmd = "set" /\ Unprivileged(lastDone'.user)

\* The step is one of a query handler.
QueryStep ==
    \E i \in Slots :
        /\ task'[i] # task[i]
        /\ task[i].cmd = "query" \/ task'[i].cmd = "query"

\* The step is one in which the set-news handler of slot i writes.
WriterStep(i) ==
    /\ task'[i] # task[i]
    /\ task'[i].cmd = "set"
    /\ task'[i].pc \in {"write", "send_ok"}

\* The recognized markers and what each stands for.
Markers ==
    {<<TagB, Bold>>, <<TagBEnd, Bold>>, <<TagI, Italic>>, <<TagIEnd, Italic>>,
     <<TagBr, Newline>>, <<TagLi, Bullet>>}

\* s with every occurrence of a marker replaced, in one pass from the left.
RECURSIVE Translate(_)
Translate(s) ==
    IF s = <<>> THEN <<>>
    ELSE IF \E m \in Markers : StartsWith(s, m[1])
    THEN LET m == CHOOSE m \in Markers : StartsWith(s, m[1])
         IN  m[2] \o Translate(Drop(s, Len(m[1])))
    ELSE <<Head(s)>> \o Translate(Tail(s))

\* s with each line end ("\r\n", "\r", "\n") read as "\n".
RECURSIVE LineEndsRead(_)
LineEndsRead(s) ==
    IF s = <<>> THEN <<>>
    ELSE IF StartsWith(s, <<"\r", "\n">>) THEN <<"\n">> \o LineEndsRead(Drop(s, 2))
    ELSE IF Head(s) = "\r" THEN <<"\n">> \o LineEndsRead(Tail(s))
    ELSE <<Head(s)>> \o LineEndsRead(Tail(s))

\* s from its first to its last character that is not whitespace.
Trimmed(s) ==
    LET inked == {k \in 1..Len(s) : s[k] \notin Whitespace}
    IN  IF inked = {} THEN <<>>
        ELSE SubSeq(s, CHOOSE a \in inked : \A k \in inked : a <= k,
                       CHOOSE b \in inked : \A k \in inked : k <= b)

\* What a query shows for update.txt as f.
Shown(f) ==
    IF ~f.exists THEN Placeholder
    ELSE LET t == Trimmed(LineEndsRead(f.content))
         IN  IF t = <<>> THEN Placeholder ELSE Translate(t)

(***************************************************************************)
(* C1.  A set-news attempt from a caller who has neither the administrator *)
(* permission nor a listed id leaves update.txt as it was, and the caller  *)
(* gets the permission-denied reply, never the success reply.              *)
(***************************************************************************)
\* C1: every step of a set-news handler run for an unprivileged caller
\* leaves update.txt as it was, and the reply that caller gets is the
\* permission-denied one.
C1_Original ==
    /\ [][UnprivilegedSetStep => file' = file]_vars
    /\ [](lastDone.cmd = "set" /\ Unprivileged(lastDone.user)
            => lastDone.reply = DeniedReply)

\* C1, the part the code keeps: the file is untouched, the handler never
\* gets past the refusal, and the caller never gets the success reply; the
\* caller gets the permission-denied reply unless the handler raised (no
\* guild_permissions in a direct message, or send_message itself failed),
\* when the caller gets nothing.
C1_UnprivilegedNeverWrites ==
    /\ [][UnprivilegedSetStep => file' = file]_vars
    /\ [](\A i \in Slots :
            task[i].cmd = "set" /\ Unprivileged(task[i].user)
                => task[i].pc = "send_denied")
    /\ [](lastDone.cmd = "set" /\ Unprivileged(lastDone.user)
            => \/ lastDone.reply = DeniedReply /\ ~lastDone.raised
               \/ lastDone.reply = NoReply /\ lastDone.raised)

\* C1: an unprivileged caller refused, with a text already stored.
C1_Refused ==
    /\ lastDone.cmd = "set"
    /\ Unprivileged(lastDone.user)
    /\ lastDone.reply = DeniedReply
    /\ wrote
    /\ file = FileWith(SampleA)

(***************************************************************************)
(* C2.  update.txt holds, character for character, the text of the most    *)
(* recent authorized set-news; it is absent only while no authorized write *)
(* has happened; once there, it is never deleted.                          *)
(***************************************************************************)
\* C2: while no handler is inside save_news the file is what the last
\* authorized write was given (the initial file before any); it is absent
\* only before any write, and never goes from present to absent.
C2_StoredVerbatim ==
    /\ [](running = 0 => file = committed)
    /\ [](wrote /\ running = 0 => file.exists)
    /\ [](~file.exists => ~wrote)
    /\ [][file.exists => file'.exists]_vars

\* C2: a text with markers and outer spaces stored, then queried.
C2_Witness ==
    /\ wrote
    /\ running = 0
    /\ file = FileWith(SampleA)
    /\ lastDone.cmd = "query"
    /\ lastDone.reply.kind = "news"

C5_PlaceholderWhenAbsent ==
    /\ [][\A i \in Slots :
            task[i].pc = "defer" /\ task'[i].responded /\ ~file.exists
                => /\ task'[i].pc = "followup"
                   /\ task'[i].news = Placeholder
                   /\ task'[i].logs = <<>>]_vars
    /\ [][QueryStep => file' = file]_vars

\* C5: a query answered with the placeholder, the file still absent.
C5_Witness ==
    /\ ~file.exists
    /\ lastDone.cmd = "query"
    /\ lastDone.reply = NewsReply(Placeholder)
    /\ lastDone.logs = <<>>

(***************************************************************************)
(* C6.  With DISCORD_TOKEN unset or empty, the module raises before the    *)
(* web server thread, the heartbeat thread or the client is started.       *)
(***************************************************************************)
\* C6: with the token None or empty the main thread is at the check or has
\* raised, and neither thread nor the client has been started.
C6_NoTokenNoStart ==
    token \in {"None", ""} =>
        /\ mainpc \in {"check_token", "crashed"}
        /\ web = "off"
        /\ hbpc = "off"
        /\ conn = "off"

\* C6: the module raised on an empty token.
C6_Witness == token = "" /\ mainpc = "crashed"

(***************************************************************************)
(* C7.  While the web server serves, "/" and "/healthz" answer 200 with    *)
(* their fixed bodies, whatever update.txt holds, whatever the client's    *)
(* connection state, whatever handlers are in flight.                      *)
(***************************************************************************)
\* C7: every answer of the web server is 200 with the body of its route.
C7_HealthFixed ==
    httpResp # NoResponse =>
        /\ httpResp.status = 200
        /\ httpResp.route \in Routes
        /\ httpResp.body = IF httpResp.route = "/" THEN "OK" ELSE "{status: ok}"

\* C7: /healthz answered, the client disconnected, a text stored, a query
\* handler in its error path.
C7_Witness ==
    /\ httpResp.route = "/healthz"
    /\ conn = "disconnected"
    /\ file.exists
    /\ \E i \in Slots : task[i].pc = "fallback"

(***************************************************************************)
(* C8.  A failure in the query handler (defer, the file read, the followup *)
(* send) is logged and followed by exactly one attempt to notify the       *)
(* caller, by followup when the response is done and by the response       *)
(* otherwise; the handler returns normally even if that attempt fails.     *)
(***************************************************************************)
\* C8, as claimed: a query handler that met a failure logged it, made one
\* attempt to notify, and returned normally.
C8_Original ==
    lastDone.cmd = "query" /\ lastDone.fault # "none" =>
        /\ lastDone.logs # <<>>
        /\ lastDone.tries = 1
        /\ ~lastDone.raised

\* C8, as the code has it: discord.NotFound is logged and nothing is
\* attempted; any other failure is logged and followed by one attempt, by
\* followup when the response is done and by the response otherwise; the
\* handler returns normally either way.
C8_FailuresLoggedOnce ==
    /\ \A i \in Slots :
        /\ task[i].tries <= 1
        /\ task[i].pc = "fallback" =>
            /\ task[i].tries = 1
            /\ task[i].logs = <<"unhandled">>
            /\ task[i].via = IF task[i].responded THEN "followup" ELSE "response"
    /\ lastDone.cmd = "query" =>
        /\ ~lastDone.raised
        /\ lastDone.fault = "none" =>
            /\ lastDone.tries = 0
            /\ lastDone.logs = <<>>
            /\ lastDone.reply.kind = "news"
        /\ lastDone.fault = "NotFound" =>
            /\ lastDone.tries = 0
            /\ lastDone.logs = <<"not_found">>
            /\ lastDone.reply = NoReply
        /\ lastDone.fault \notin {"none", "NotFound"} =>
            /\ lastDone.tries = 1
            /\ lastDone.via = IF lastDone.responded THEN "followup" ELSE "response"
            /\ \/ lastDone.reply = ErrorReply /\ lastDone.logs = <<"unhandled">>
               \/ /\ lastDone.reply = NoReply
                  /\ lastDone.logs = <<"unhandled", "also_failed">>

\* C8: defer failed, the notification by the response failed too, and the
\* handler returned.
C8_Witness ==
    /\ lastDone.cmd = "query"
    /\ lastDone.fault = "HTTPException"
    /\ lastDone.via = "response"
    /\ lastDone.tries = 1
    /\ lastDone.logs = <<"unhandled", "also_failed">>

(***************************************************************************)
(* C9.  Whatever a ping's outcome, the heartbeat sleeps and pings again:   *)
(* while the process lives, pings never stop, and a ping changes nothing   *)
(* of update.txt, the web server, the client or the handlers.              *)
(***************************************************************************)
PingStep == hbpc = "ping" /\ hbpc' # hbpc /\ mainpc' # "exited"

\* C9: a ping is always followed by a sleep and a sleep by a ping unless the
\* process ends, and a ping's step, whatever its outcome, goes to the sleep
\* and leaves the main thread, the web server, the client, the file and the
\* handlers as they were.
C9_HeartbeatNeverStops ==
    /\ [](hbpc = "ping" => <>(hbpc = "sleep" \/ mainpc = "exited"))
    /\ [](hbpc = "sleep" => <>(hbpc = "ping" \/ mainpc = "exited"))
    /\ [][PingStep => hbpc' = "sleep" /\ UNCHANGED <<mainpc, web, conn, botVars>>]_vars

\* C9: a failed ping was logged and the loop is at its next ping, with a
\* text stored and a handler in flight.
C9_Witness ==
    /\ hbLog = "failed"
    /\ hbpc = "ping"
    /\ web = "serving"
    /\ file.exists
    /\ \E i \in Slots : task[i].pc # "idle"

(***************************************************************************)
(* C10.  Handlers interleave only at their awaits, so a query never reads  *)
(* update.txt between the truncation and the write of a set-news: what it  *)
(* read, and then sends, is the placeholder or the formatted form of a     *)
(* complete text that was stored while the query was in flight.            *)
(***************************************************************************)
\* C10: what a query holds after its read is what is shown for the file as
\* the last completed write left it; the read happens with no write under
\* way; and the news the handler sends is what it read.
C10_NoTornRead ==
    /\ [](\A i \in Slots :
            task[i].pc = "followup" => task[i].news = Shown(task[i].src))
    /\ [][\A i \in Slots :
            task[i].pc = "defer" /\ task'[i].pc = "followup"
                => task'[i].src = committed /\ file = committed]_vars
    /\ [][\A i \in Slots :
            task[i].pc = "followup" /\ task'[i].pc = "idle"
                /\ lastDone'.reply.kind = "news"
                => lastDone'.reply = NewsReply(task[i].news)]_vars

\* C10: a query holds the news of one text while a set-news handler is
\* between its truncation and its write of another.
C10_Witness ==
    \E i, j \in Slots :
        /\ task[i].pc = "followup"
        /\ task[i].news = Shown(FileWith(SampleA))
        /\ task[j].pc = "write"
        /\ task[j].text = SampleB
        /\ file = save_open

====
